---- MODULE Spec2Model ----
(***************************************************************************)
(* Model of the Hume EVI client (package hume): one Client owning a single *)
(* WebSocket handle (wsConn) guarded by a mutex (mu), the caller-side      *)
(* operations StartVoiceChat / SendAudioData / StopVoiceChat, and the      *)
(* receive loop readResponses that decodes inbound frames and dispatches   *)
(* them to the session's handler.                                          *)
(*                                                                         *)
(* The repository carries several iterations of the client; the model      *)
(* keeps them apart with the variable `variant`:                           *)
(*   "tagged"   src/unnamed/part_002  (tagged-union responses)             *)
(*   "flat"     src/hume_ai_api.go    (flat VoiceChatResponse struct)      *)
(*   "fallback" src/unnamed/part_001  (flat struct, error/unknown filler)  *)
(* src/unnamed/part_003 has the receive loop, SendAudioData and            *)
(* StopVoiceChat of "flat" and the dial-failure path of "fallback"; it     *)
(* adds no behaviour of its own and has no variant value.                  *)
(***************************************************************************)
EXTENDS Integers, Sequences, FiniteSets, TLC

\* ------------------------------------------------------------------ bounds
\* number of connections the dialer may open during one run
MaxSessions == 2
\* number of frames the peer sends during one run (all connections together)
MaxFrames == 2

Variants == {"tagged", "flat", "fallback"}
\* caller goroutines that invoke the client's methods
Callers == {"t1", "t2"}
Sessions == 1..MaxSessions
\* the nil *websocket.Conn
NilConn == 0

\* ------------------------------------------------------------- JSON frames
\* A JSON value of a frame's top-level object: its JSON kind and its text.
JStr(s) == [k |-> "string", v |-> s]
JNum(s) == [k |-> "number", v |-> s]
JBool(s) == [k |-> "bool", v |-> s]
JObj == [k |-> "object", v |-> ""]

\* An inbound frame: `syntax` tells whether the bytes are a JSON object at
\* all, `fields` maps the member names present to their values (members of
\* the nested "message" object are written "message.role", ...).
FGarbage == [syntax |-> "garbage", fields |-> [x \in {"type"} |-> JStr("")]]
FMeta == [syntax |-> "object",
          fields |-> [type |-> JStr("chat_metadata"), chat_group_id |-> JStr("g1"),
                      chat_id |-> JStr("c1")]]
FAudio == [syntax |-> "object",
           fields |-> [type |-> JStr("audio_output"), id |-> JStr("a1"),
                       index |-> JNum("3"), data |-> JStr("QUJD")]]
FEnd == [syntax |-> "object", fields |-> [type |-> JStr("assistant_end")]]
FMsg == [syntax |-> "object",
         fields |-> [type |-> JStr("assistant_message"), message |-> JObj,
                     from_text |-> JBool("true")]
                    @@ ("message.role" :> JStr("assistant"))
                    @@ ("message.content" :> JStr("Hello"))]
\* known tag, a member of the wrong JSON kind: the typed decode fails
FBadAudio == [syntax |-> "object",
              fields |-> [type |-> JStr("audio_output"), index |-> JStr("x")]]
\* known tag, the other members missing
FMetaMissing == [syntax |-> "object", fields |-> [type |-> JStr("chat_metadata")]]
FUnknown == [syntax |-> "object", fields |-> [type |-> JStr("something_new")]]
FNoTag == [syntax |-> "object", fields |-> [text |-> JStr("hi")]]
FEmptyTag == [syntax |-> "object", fields |-> [type |-> JStr("")]]
FNumTag == [syntax |-> "object", fields |-> [type |-> JNum("5")]]

KnownTags == {"chat_metadata", "assistant_message", "assistant_end", "audio_output"}

\* ------------------------------------------------------- encoding/json
ZeroOf(kind) ==
  CASE kind = "string" -> ""
    [] kind = "number" -> "0"
    [] kind = "bool" -> "false"
    [] OTHER -> ""

\* Go struct layouts: json member name -> JSON kind the Go field accepts.
typeCheckSchema == [type |-> "string"]
ChatMetadataSchema == [type |-> "string", chat_group_id |-> "string", chat_id |-> "string"]
AssistantMessageSchema ==
  [type |-> "string", message |-> "object", from_text |-> "bool"]
  @@ ("message.role" :> "string") @@ ("message.content" :> "string")
AssistantEndSchema == [type |-> "string"]
AudioResponseSchema ==
  [type |-> "string", id |-> "string", index |-> "number", data |-> "string",
   custom_session_id |-> "string"]
FlatResponseSchema ==
  [type |-> "string", text |-> "string", emotions |-> "object", error |-> "string",
   is_final |-> "bool"]

\* json.Unmarshal(frame, &struct): fails on bytes that are not JSON and on a
\* member whose JSON kind does not fit the Go field; members absent from the
\* frame keep the zero value, members unknown to the struct are ignored.
UnmarshalErr(frame, schema) ==
  \/ frame.syntax # "object"
  \/ \E m \in (DOMAIN schema) \cap (DOMAIN frame.fields) : frame.fields[m].k # schema[m]

ZeroVal(schema) == [m \in DOMAIN schema |-> ZeroOf(schema[m])]

UnmarshalVal(frame, schema) ==
  [m \in DOMAIN schema |->
     IF /\ frame.syntax = "object"
        /\ m \in DOMAIN frame.fields
        /\ frame.fields[m].k = schema[m]
     THEN frame.fields[m].v
     ELSE ZeroOf(schema[m])]


\* A decoded response handed to OnResponse: the Go type and its field values.
Response(struct, f) == [struct |-> struct, f |-> f]
NoResponse == Response("nil", [type |-> ""])

Deliver(r) == [kind |-> "deliver", val |-> r]
Drop == [kind |-> "drop", val |-> NoResponse]
Fatal == [kind |-> "fatal", val |-> NoResponse]

\* a typed decode that leaves the target struct as it was declared
DecodeAsZero(frame, struct, schema) ==
  IF UnmarshalErr(frame, schema) THEN Drop
  ELSE Deliver(Response(struct, ZeroVal(schema)))

\* typed decode of one case of the switch in readResponses
DecodeAs(frame, struct, schema) ==
  IF UnmarshalErr(frame, schema) THEN Drop
  ELSE Deliver(Response(struct, UnmarshalVal(frame, schema)))

\* a dispatcher that hands a frame of an unlisted tag to the handler as is
DispatchTaggedLoose(frame) ==
  IF UnmarshalErr(frame, typeCheckSchema) THEN Drop
  ELSE LET tag == UnmarshalVal(frame, typeCheckSchema).type IN
    CASE tag = "chat_metadata" -> DecodeAs(frame, "ChatMetadata", ChatMetadataSchema)
      [] tag = "assistant_message" ->
           DecodeAs(frame, "AssistantMessage", AssistantMessageSchema)
      [] tag = "assistant_end" -> DecodeAs(frame, "AssistantEnd", AssistantEndSchema)
      [] tag = "audio_output" -> DecodeAs(frame, "AudioResponse", AudioResponseSchema)
      [] OTHER -> Deliver(Response("typeCheck", UnmarshalVal(frame, typeCheckSchema)))

\* readResponses of the tagged-union client, from the type pre-parse to the
\* `if response != nil` test.
DispatchTagged(frame) ==
  IF UnmarshalErr(frame, typeCheckSchema) THEN Drop
  ELSE LET tag == UnmarshalVal(frame, typeCheckSchema).type IN
    CASE tag = "chat_metadata" -> DecodeAs(frame, "ChatMetadata", ChatMetadataSchema)
      [] tag = "assistant_message" ->
           DecodeAs(frame, "AssistantMessage", AssistantMessageSchema)
      [] tag = "assistant_end" -> DecodeAs(frame, "AssistantEnd", AssistantEndSchema)
      [] tag = "audio_output" -> DecodeAs(frame, "AudioResponse", AudioResponseSchema)
      [] OTHER -> Drop

\* readResponses of the flat-struct clients: a decode error ends the loop
\* through OnDisconnect.
DispatchFlat(frame) ==
  IF UnmarshalErr(frame, FlatResponseSchema) THEN Fatal
  ELSE Deliver(Response("VoiceChatResponse", UnmarshalVal(frame, FlatResponseSchema)))

\* `if response.Type == "" { response.Type = "unknown" }`
FillTypeNever(f) == f
FillType(f) == IF f.type = "" THEN [f EXCEPT !.type = "unknown"] ELSE f

\* readResponses of the flat-struct client with the fallback response.
DispatchFallback(frame) ==
  IF UnmarshalErr(frame, FlatResponseSchema)
  THEN Deliver(Response("VoiceChatResponse",
                        [ZeroVal(FlatResponseSchema)
                           EXCEPT !.type = "error", !.error = "JSON parsing failed"]))
  ELSE Deliver(Response("VoiceChatResponse",
                        FillType(UnmarshalVal(frame, FlatResponseSchema))))

Dispatch(v, frame) ==
  CASE v = "tagged" -> DispatchTagged(frame)
    [] v = "fallback" -> DispatchFallback(frame)
    [] OTHER -> DispatchFlat(frame)

\* the frames the peer may put on a connection
Frames == {FGarbage, FMeta, FBadAudio, FUnknown, FNoTag}

\* ------------------------------------------------------------------- state
VARIABLES
  variant,    \* which iteration of the client runs
  wsConn,     \* Client.wsConn: NilConn or the id of the stored connection
  mu,         \* Client.mu: "free" or the goroutine that locked it
  nextConn,   \* id the dialer gives the next connection it opens
  connState,  \* per connection: "unopened", "open", "peer_closed" (the peer
              \* closed it abnormally or the transport failed), "peer_normal"
              \* (the peer sent a normal-closure close frame) or "closed"
              \* (Close called)
  inbox,      \* per connection: frames received and not yet read
  sent,       \* number of frames the peer has sent so far
  cpc,        \* per caller: position inside the method it runs
  cconn,      \* per caller: local `conn` / the session the call started
  lpc,        \* per session: position of its readResponses goroutine
  lconn,      \* per session: connection the loop's ReadMessage runs on
  cancelled,  \* the context the caller hands to every start call is done
  hist,       \* per session: callbacks its handler received, in order
  afterStop,  \* the call completed most recently was a StopVoiceChat, and no
              \* other method has been called since
  call,       \* a call of one of the package's pure functions: the function,
              \* its argument, how far the call has got and its result
  last        \* what the last step let the outside see: a method returning
              \* (who, which method, the result, the outcome of the I/O call it
              \* made and on which connection) or the receive loop of session s
              \* taking a frame

vars == <<variant, wsConn, mu, nextConn, connState, inbox, sent, cpc, cconn, lpc, lconn,
          cancelled, hist, afterStop, call, last>>

\* what no step of a session changes
staticVars == <<variant, call>>
\* the state of the client and its sessions
sessionVars == <<variant, wsConn, mu, nextConn, connState, inbox, sent, cpc, cconn, lpc,
                 lconn, cancelled, hist, afterStop, last>>

connVars == <<connState, inbox, sent>>
callerVars == <<cpc, cconn>>
loopVars == <<lpc, lconn, hist>>

\* the handler a start operation is called with: nil, or a handler of the
\* caller's; the handler of the package whose methods do nothing
NilHandler == "nil"
UserHandler == "user"
defaultHandler == "defaultHandler"

\* the handler argument of the start call that opens session s: the first
\* session of a run is started with a nil handler, every later one with a
\* handler of the caller's
HandlerArg(s) == IF s = 1 THEN NilHandler ELSE UserHandler

\* if handler == nil { handler = &defaultHandler{} }
\* (StartChat: &defaultChatHandler{})
ReplaceNilNever(h) == h
ReplaceNil(h) == IF h = NilHandler THEN defaultHandler ELSE h

\* the handler the callbacks of session s are invoked on: the parameter
\* of the start operation after its first statement, which is also what
\* the receive loop is started with
Handler(s) == ReplaceNil(HandlerArg(s))

\* a method called on a nil interface value: a nil dereference
NilCall == [ev |-> "nil_call", conn |-> 0, seq |-> 0, type |-> ""]

\* a callback of session s, h being the callbacks so far and after what
\* they are once the method has been called
Invoke(s, h, after) == IF Handler(s) = NilHandler THEN Append(h, NilCall) ELSE after

\* a goroutine panicked on a nil dereference: the process is gone, and
\* with it every goroutine, the connections and the peer's view of them
crashed ==
  \/ \E s \in Sessions : lpc[s] = "panic"
  \/ \E s \in Sessions : \E i \in DOMAIN hist[s] : hist[s][i] = NilCall

\* goroutines inside a write call on connection k
Writing(k) == {t \in Callers : cpc[t] \in {"write", "stopwrite"} /\ cconn[t] = k}

\* handler callbacks, as recorded in hist: for a response the connection it
\* was read from, the arrival number of its frame and the delivered Type;
\* for a disconnect the reason
EvConnect == [ev |-> "connect", conn |-> NilConn, seq |-> 0, type |-> ""]
EvResponse(k, n, r) == [ev |-> "response", conn |-> k, seq |-> n, type |-> r.f.type]
EvDisconnect(why) == [ev |-> "disconnect", conn |-> NilConn, seq |-> 0, type |-> why]

NoEvent == [kind |-> "none", t |-> "none", op |-> "none", res |-> "none", io |-> "none",
            s |-> 0, seq |-> 0, frame |-> FGarbage]
Ret(t, op, res, io, k) == [NoEvent EXCEPT !.kind = "return", !.t = t, !.op = op,
                                          !.res = res, !.io = io, !.s = k]
Read(s, m) == [NoEvent EXCEPT !.kind = "read", !.s = s, !.seq = m.seq, !.frame = m.frame]

\* no call of a pure function is in progress
NoCall == [fn |-> "none", stage |-> "done", in |-> <<>>, req |-> <<>>, wire |-> <<>>,
           out |-> <<>>]

Init ==
  /\ variant \in Variants
  /\ call = NoCall
  /\ wsConn = NilConn
  /\ mu = "free"
  /\ nextConn = 1
  /\ connState = [k \in Sessions |-> "unopened"]
  /\ inbox = [k \in Sessions |-> <<>>]
  /\ sent = 0
  /\ cpc = [t \in Callers |-> "idle"]
  /\ cconn = [t \in Callers |-> NilConn]
  /\ lpc = [s \in Sessions |-> "none"]
  /\ lconn = [s \in Sessions |-> NilConn]
  /\ cancelled = FALSE
  /\ hist = [s \in Sessions |-> <<>>]
  /\ afterStop = FALSE
  /\ last = NoEvent

\* method `op` returns `res` to caller t; `io` is what its I/O call on
\* connection k returned
Return(t, op, res, io, k) ==
  /\ cpc' = [cpc EXCEPT ![t] = "idle"]
  /\ cconn' = [cconn EXCEPT ![t] = NilConn]
  /\ last' = Ret(t, op, res, io, k)
  /\ afterStop' = (op = "stop")

\* method `op` goes on to position `pc`, its local connection being k
Goto(t, op, pc, k) ==
  /\ cpc' = [cpc EXCEPT ![t] = pc]
  /\ cconn' = [cconn EXCEPT ![t] = k]
  /\ last' = NoEvent
  /\ afterStop' = (afterStop /\ op = "stop")

\* ---------------------------------------------------------- StartVoiceChat
\* `if c.wsConn != nil` at the head of StartVoiceChat
AlreadyActiveNever(conn) == FALSE
AlreadyActive(conn) == conn # NilConn

\* whether a failed dial releases the mutex before returning
DialFailUnlocks(v) == v # "flat"

\* c.mu.Lock(); the `c.wsConn != nil` test; url.Parse
StartLock(t) ==
  /\ ~crashed
  /\ cpc[t] = "idle" /\ mu = "free"
  /\ \E parseOK \in BOOLEAN :
       IF AlreadyActive(wsConn)
       THEN /\ Return(t, "start", "already_active", "none", NilConn)
            /\ UNCHANGED mu
       ELSE IF ~parseOK
       THEN /\ Return(t, "start", "parse_error", "none", NilConn)
            /\ UNCHANGED mu
       ELSE /\ Goto(t, "start", "dial", NilConn)
            /\ mu' = t
  /\ UNCHANGED <<staticVars, wsConn, nextConn, connVars, loopVars, cancelled>>

\* what StartVoiceChat returns when the handshake failed
DialErrorIgnored == "nil"
DialError == "dial_error"

\* handler.OnConnect()
OnConnectSkipped(h) == h
OnConnect(h) == Append(h, EvConnect)

\* outcomes of the handshake: a done context makes DialContext fail
\* (and the run opens MaxSessions connections at most)
DialResults == IF cancelled \/ nextConn > MaxSessions THEN {FALSE} ELSE {TRUE, FALSE}

\* dialer.DialContext returns; on success `c.wsConn = conn; c.mu.Unlock()`
\* and handler.OnConnect()
StartDial(t) ==
  /\ ~crashed
  /\ cpc[t] = "dial"
  /\ \E ok \in DialResults :
       IF ok
       THEN /\ connState' = [connState EXCEPT ![nextConn] = "open"]
            /\ wsConn' = nextConn
            /\ nextConn' = nextConn + 1
            /\ mu' = "free"
            /\ hist' = [hist EXCEPT ![nextConn] = Invoke(nextConn, @, OnConnect(@))]
            /\ Goto(t, "start", "spawn", nextConn)
       ELSE /\ mu' = IF DialFailUnlocks(variant) THEN "free" ELSE mu
            /\ Return(t, "start", DialError, "err", NilConn)
            /\ UNCHANGED <<connState, wsConn, nextConn, hist>>
  /\ UNCHANGED <<staticVars, inbox, sent, lpc, lconn, cancelled>>

\* go c.readResponses(ctx, handler); return nil
StartSpawn(t) ==
  /\ ~crashed
  /\ cpc[t] = "spawn"
  /\ lpc' = [lpc EXCEPT ![cconn[t]] = "top"]
  /\ Return(t, "start", "nil", "ok", cconn[t])
  /\ UNCHANGED <<staticVars, wsConn, mu, nextConn, connVars, lconn, hist, cancelled>>

\* ------------------------------------------------------------ I/O results
\* outcomes a write call on connection k can return
WriteResults(k) ==
  CASE connState[k] = "closed" -> {"err"}
    [] connState[k] \in {"peer_closed", "peer_normal"} -> {"ok", "err"}
    [] OTHER -> {"ok"}

\* outcomes of Conn.Close() on connection k
CloseResults(k) ==
  IF connState[k] \in {"peer_closed", "peer_normal"} THEN {"nil", "close_error"} ELSE {"nil"}

\* ----------------------------------------------------------- SendAudioData
\* whether SendAudioData keeps the mutex while it writes
SendHoldsLock(v) == v # "tagged"

\* c.mu.Lock(); conn := c.wsConn; the nil test; the write call begins
SendLock(t) ==
  /\ ~crashed
  /\ cpc[t] = "idle" /\ mu = "free"
  /\ IF wsConn = NilConn
     THEN /\ Return(t, "send", "not_connected", "none", NilConn)
          /\ UNCHANGED mu
     ELSE /\ Goto(t, "send", "write", wsConn)
          /\ mu' = IF SendHoldsLock(variant) THEN t ELSE mu
  /\ UNCHANGED <<staticVars, wsConn, nextConn, connVars, loopVars, cancelled>>

\* `return conn.WriteJSON(message)`
SendResultSwallowed(r) == "nil"
SendResult(r) == IF r = "ok" THEN "nil" ELSE "write_error"

\* the write call returns and SendAudioData returns its result
SendWrite(t) ==
  /\ ~crashed
  /\ cpc[t] = "write"
  /\ \E r \in WriteResults(cconn[t]) :
       Return(t, "send", SendResult(r), r, cconn[t])
  /\ mu' = IF mu = t THEN "free" ELSE mu
  /\ UNCHANGED <<staticVars, wsConn, nextConn, connVars, loopVars, cancelled>>

\* ----------------------------------------------------------- StopVoiceChat
\* c.mu.Lock(); the nil test; the close-frame write begins
StopLock(t) ==
  /\ ~crashed
  /\ cpc[t] = "idle" /\ mu = "free"
  /\ IF wsConn = NilConn
     THEN /\ Return(t, "stop", "nil", "none", NilConn)
          /\ UNCHANGED mu
     ELSE /\ Goto(t, "stop", "stopwrite", wsConn)
          /\ mu' = t
  /\ UNCHANGED <<staticVars, wsConn, nextConn, connVars, loopVars, cancelled>>

\* the close-frame write returns; on error StopVoiceChat returns it, else
\* c.wsConn.Close(); c.wsConn = nil; the deferred unlock
StopWrite(t) ==
  /\ ~crashed
  /\ cpc[t] = "stopwrite"
  /\ \E r \in WriteResults(wsConn) :
       IF r = "err"
       THEN /\ Return(t, "stop", "close_msg_error", "err", wsConn)
            /\ UNCHANGED <<wsConn, connState>>
       ELSE /\ \E e \in CloseResults(wsConn) : Return(t, "stop", e, "ok", wsConn)
            /\ connState' = [connState EXCEPT ![wsConn] = "closed"]
            /\ wsConn' = NilConn
  /\ mu' = "free"
  /\ UNCHANGED <<staticVars, nextConn, inbox, sent, loopVars, cancelled>>

\* ------------------------------------------------------------ readResponses
\* where the loop goes after handler.OnDisconnect: `return` runs the deferred
\* function; a loop that went on instead would be back at the select
AfterDisconnectContinue == "top"
AfterDisconnect == "defer"

\* the mutex over the select and the ReadMessage call: the loop takes no
\* lock there; a loop that kept the mutex while it reads would leave it held
ReadLockHeld(m) == "loop"
ReadLock(m) == m

\* head of the for/select: ctx.Done() is taken when the context is done,
\* otherwise the default case evaluates c.wsConn (without the mutex) and
\* calls ReadMessage on it; a nil handle is a nil-pointer dereference.
LoopTop(s) ==
  /\ ~crashed
  /\ lpc[s] = "top"
  /\ IF cancelled
     THEN /\ hist' = [hist EXCEPT ![s] = Invoke(s, @, Append(@, EvDisconnect("cancelled")))]
          /\ lpc' = [lpc EXCEPT ![s] = AfterDisconnect]
          /\ UNCHANGED lconn
     ELSE IF wsConn = NilConn
     THEN /\ lpc' = [lpc EXCEPT ![s] = "panic"]
          /\ UNCHANGED <<lconn, hist>>
     ELSE /\ lpc' = [lpc EXCEPT ![s] = "read"]
          /\ lconn' = [lconn EXCEPT ![s] = wsConn]
          /\ UNCHANGED hist
  /\ last' = NoEvent
  /\ mu' = ReadLock(mu)
  /\ UNCHANGED <<afterStop, staticVars, wsConn, nextConn, connVars, callerVars, cancelled>>

\* ReadMessage returns a frame; the frame is decoded and, depending on the
\* decoding, handed to OnResponse, dropped, or reported through OnDisconnect
LoopReadFrame(s) ==
  /\ ~crashed
  /\ lpc[s] = "read"
  /\ inbox[lconn[s]] # <<>>
  /\ inbox' = [inbox EXCEPT ![lconn[s]] = Tail(@)]
  /\ LET m == Head(inbox[lconn[s]])
         out == Dispatch(variant, m.frame) IN
       CASE out.kind = "deliver" ->
              /\ hist' = [hist EXCEPT ![s] = Invoke(s, @, Append(@, EvResponse(lconn[s], m.seq, out.val)))]
              /\ lpc' = [lpc EXCEPT ![s] = "top"]
         [] out.kind = "fatal" ->
              /\ hist' = [hist EXCEPT ![s] = Invoke(s, @, Append(@, EvDisconnect("parse_error")))]
              /\ lpc' = [lpc EXCEPT ![s] = AfterDisconnect]
         [] OTHER ->
              /\ lpc' = [lpc EXCEPT ![s] = "top"]
              /\ UNCHANGED hist
  /\ lconn' = [lconn EXCEPT ![s] = NilConn]
  /\ last' = Read(s, Head(inbox[lconn[s]]))
  /\ UNCHANGED <<staticVars, wsConn, mu, nextConn, connState, sent, callerVars, cancelled,
                 afterStop>>

\* ReadMessage returns an error: handler.OnDisconnect(err); return
LoopReadError(s) ==
  /\ ~crashed
  /\ lpc[s] = "read"
  /\ \/ connState[lconn[s]] = "closed"
     \/ connState[lconn[s]] = "peer_closed" /\ inbox[lconn[s]] = <<>>
  /\ hist' = [hist EXCEPT ![s] = Invoke(s, @, Append(@, EvDisconnect("read_error")))]
  /\ lpc' = [lpc EXCEPT ![s] = AfterDisconnect]
  /\ lconn' = [lconn EXCEPT ![s] = NilConn]
  /\ last' = NoEvent
  /\ UNCHANGED <<afterStop, staticVars, wsConn, mu, nextConn, connVars, callerVars, cancelled>>

\* the deferred function: lock; close and clear c.wsConn if set; unlock
LoopDefer(s) ==
  /\ ~crashed
  /\ lpc[s] = "defer" /\ mu = "free"
  /\ IF wsConn # NilConn
     THEN /\ connState' = [connState EXCEPT ![wsConn] = "closed"]
          /\ wsConn' = NilConn
     ELSE UNCHANGED <<connState, wsConn>>
  /\ lpc' = [lpc EXCEPT ![s] = "done"]
  /\ last' = NoEvent
  /\ UNCHANGED <<afterStop, staticVars, mu, nextConn, inbox, sent, callerVars, lconn, cancelled, hist>>

\* -------------------------------------------------------------- environment
\* the peer sends a frame on an open connection
PeerSend(k, frame) ==
  /\ ~crashed
  /\ connState[k] = "open"
  /\ inbox[k] = <<>> /\ sent < MaxFrames
  /\ inbox' = [inbox EXCEPT ![k] = Append(@, [seq |-> sent + 1, frame |-> frame])]
  /\ sent' = sent + 1
  /\ last' = NoEvent
  /\ UNCHANGED <<afterStop, staticVars, wsConn, mu, nextConn, connState, callerVars, loopVars, cancelled>>

\* the peer closes the connection, or the transport fails
PeerClose(k) ==
  /\ ~crashed
  /\ connState[k] = "open"
  /\ connState' = [connState EXCEPT ![k] = "peer_closed"]
  /\ last' = NoEvent
  /\ UNCHANGED <<afterStop, staticVars, wsConn, mu, nextConn, inbox, sent, callerVars, loopVars,
                 cancelled>>

\* the caller's context is cancelled while a session runs
Cancel ==
  /\ ~crashed
  /\ \E s \in Sessions : lpc[s] \in {"top", "read"}
  /\ ~cancelled
  /\ cancelled' = TRUE
  /\ last' = NoEvent
  /\ UNCHANGED <<afterStop, staticVars, wsConn, mu, nextConn, connVars, callerVars, loopVars>>

\* ===================================================================
\* Text chat of src/hume_ai_api.go: StartChat, StopChat, readChatMessages.
\* StopChat is, statement for statement, the StopVoiceChat of the same file
\* (StopLock/StopWrite).
\* ===================================================================
ChatMessageSchema == [type |-> "string", content |-> "string", error |-> "string"]

FChat == [syntax |-> "object",
          fields |-> [type |-> JStr("message"), content |-> JStr("hi")]]
\* the frames the peer may put on a chat connection
ChatFrames == {FGarbage, FChat}

EvMessage(k, n, f) == [ev |-> "message", conn |-> k, seq |-> n, type |-> f.type]
\* why: "cancelled", "read_error" (ReadJSON failed on the transport or on
\* the frame's JSON)
EvError(why) == [ev |-> "error", conn |-> NilConn, seq |-> 0, type |-> why]
EvClose == [ev |-> "close", conn |-> NilConn, seq |-> 0, type |-> ""]

\* StartChat up to the return of DialContext: url.Parse, then the handshake,
\* both without the mutex and without looking at c.wsConn
ChatDial(t) ==
  /\ ~crashed
  /\ cpc[t] = "idle"
  /\ \E parseOK \in BOOLEAN, ok \in DialResults :
       IF ~parseOK
       THEN /\ Return(t, "startchat", "parse_error", "none", NilConn)
            /\ UNCHANGED <<connState, nextConn>>
       ELSE IF ~ok
       THEN /\ Return(t, "startchat", "dial_error", "err", NilConn)
            /\ UNCHANGED <<connState, nextConn>>
       ELSE /\ connState' = [connState EXCEPT ![nextConn] = "open"]
            /\ nextConn' = nextConn + 1
            /\ Goto(t, "startchat", "store", nextConn)
  /\ UNCHANGED <<staticVars, wsConn, mu, inbox, sent, loopVars, cancelled>>

\* c.mu.Lock(); c.wsConn = conn; c.mu.Unlock(); handler.OnConnect()
ChatStore(t) ==
  /\ ~crashed
  /\ cpc[t] = "store" /\ mu = "free"
  /\ wsConn' = cconn[t]
  /\ hist' = [hist EXCEPT ![cconn[t]] = Invoke(cconn[t], @, OnConnect(@))]
  /\ Goto(t, "startchat", "chatspawn", cconn[t])
  /\ UNCHANGED <<staticVars, mu, nextConn, connVars, lpc, lconn, cancelled>>

\* go c.readChatMessages(ctx, handler); return nil
ChatSpawn(t) ==
  /\ ~crashed
  /\ cpc[t] = "chatspawn"
  /\ lpc' = [lpc EXCEPT ![cconn[t]] = "top"]
  /\ Return(t, "startchat", "nil", "ok", cconn[t])
  /\ UNCHANGED <<staticVars, wsConn, mu, nextConn, connVars, lconn, hist, cancelled>>

\* head of the for/select of readChatMessages; a nil c.wsConn makes ReadJSON
\* panic, and the panic runs the deferred function before it ends the
\* process
ChatLoopTop(s) ==
  /\ ~crashed
  /\ lpc[s] = "top"
  /\ IF cancelled
     THEN /\ hist' = [hist EXCEPT ![s] = Invoke(s, @, Append(@, EvError("cancelled")))]
          /\ lpc' = [lpc EXCEPT ![s] = "defer"]
          /\ UNCHANGED lconn
     ELSE IF wsConn = NilConn
     THEN /\ lpc' = [lpc EXCEPT ![s] = "panicdefer"]
          /\ UNCHANGED <<lconn, hist>>
     ELSE /\ lpc' = [lpc EXCEPT ![s] = "read"]
          /\ lconn' = [lconn EXCEPT ![s] = wsConn]
          /\ UNCHANGED hist
  /\ last' = NoEvent
  /\ UNCHANGED <<afterStop, staticVars, wsConn, mu, nextConn, connVars, callerVars, cancelled>>

\* ReadJSON returns: a decoded ChatMessage goes to OnMessage; a frame that
\* does not decode is an error like any other: OnError, return
ChatLoopReadFrame(s) ==
  /\ ~crashed
  /\ lpc[s] = "read"
  /\ inbox[lconn[s]] # <<>>
  /\ inbox' = [inbox EXCEPT ![lconn[s]] = Tail(@)]
  /\ LET m == Head(inbox[lconn[s]]) IN
       IF UnmarshalErr(m.frame, ChatMessageSchema)
       THEN /\ hist' = [hist EXCEPT ![s] = Invoke(s, @, Append(@, EvError("read_error")))]
            /\ lpc' = [lpc EXCEPT ![s] = "defer"]
       ELSE /\ hist' = [hist EXCEPT ![s] =
                         Invoke(s, @, Append(@, EvMessage(lconn[s], m.seq,
                                             UnmarshalVal(m.frame, ChatMessageSchema))))]
            /\ lpc' = [lpc EXCEPT ![s] = "top"]
  /\ lconn' = [lconn EXCEPT ![s] = NilConn]
  /\ last' = Read(s, Head(inbox[lconn[s]]))
  /\ UNCHANGED <<staticVars, wsConn, mu, nextConn, connState, sent, callerVars, cancelled,
                 afterStop>>

\* `if websocket.IsCloseError(err, websocket.CloseNormalClosure) { return }`:
\* no callback; a loop that reported the closure would call OnError
OnNormalClosureReported(h) == Append(h, EvError("read_error"))
OnNormalClosure(h) == h

\* ReadJSON fails on the transport: a normal-closure close error returns
\* silently, any other error goes to OnError first
ChatLoopReadError(s) ==
  /\ ~crashed
  /\ lpc[s] = "read"
  /\ \/ /\ \/ connState[lconn[s]] = "closed"
           \/ connState[lconn[s]] = "peer_closed" /\ inbox[lconn[s]] = <<>>
        /\ hist' = [hist EXCEPT ![s] = Invoke(s, @, Append(@, EvError("read_error")))]
     \/ /\ connState[lconn[s]] = "peer_normal" /\ inbox[lconn[s]] = <<>>
        /\ hist' = [hist EXCEPT ![s] = OnNormalClosure(@)]
  /\ lpc' = [lpc EXCEPT ![s] = "defer"]
  /\ lconn' = [lconn EXCEPT ![s] = NilConn]
  /\ last' = NoEvent
  /\ UNCHANGED <<afterStop, staticVars, wsConn, mu, nextConn, connVars, callerVars, cancelled>>

\* the deferred function up to c.mu.Unlock()
ChatLoopDefer(s) ==
  /\ ~crashed
  /\ lpc[s] \in {"defer", "panicdefer"} /\ mu = "free"
  /\ IF wsConn # NilConn
     THEN /\ connState' = [connState EXCEPT ![wsConn] = "closed"]
          /\ wsConn' = NilConn
     ELSE UNCHANGED <<connState, wsConn>>
  /\ lpc' = [lpc EXCEPT ![s] = IF lpc[s] = "defer" THEN "onclose" ELSE "paniconclose"]
  /\ last' = NoEvent
  /\ UNCHANGED <<afterStop, staticVars, mu, nextConn, inbox, sent, callerVars, lconn, cancelled, hist>>

\* handler.OnClose(), the last statement of the deferred function; after it
\* the goroutine is done, or the pending panic ends the process
ChatLoopOnClose(s) ==
  /\ ~crashed
  /\ lpc[s] \in {"onclose", "paniconclose"}
  /\ hist' = [hist EXCEPT ![s] = Invoke(s, @, Append(@, EvClose))]
  /\ lpc' = [lpc EXCEPT ![s] = IF lpc[s] = "onclose" THEN "done" ELSE "panic"]
  /\ last' = NoEvent
  /\ UNCHANGED <<afterStop, staticVars, wsConn, mu, nextConn, connVars, callerVars, lconn,
                 cancelled>>

\* the peer ends the chat with a normal-closure close frame
PeerCloseNormal(k) ==
  /\ ~crashed
  /\ connState[k] = "open"
  /\ connState' = [connState EXCEPT ![k] = "peer_normal"]
  /\ last' = NoEvent
  /\ UNCHANGED <<afterStop, staticVars, wsConn, mu, nextConn, inbox, sent, callerVars, loopVars,
                 cancelled>>

InitChat == Init /\ variant = "flat"

NextChat ==
  \/ \E t \in Callers : ChatDial(t)
  \/ \E t \in Callers : ChatStore(t)
  \/ \E t \in Callers : ChatSpawn(t)
  \/ \E t \in Callers : StopLock(t)
  \/ \E t \in Callers : StopWrite(t)
  \/ \E s \in Sessions : ChatLoopTop(s)
  \/ \E s \in Sessions : ChatLoopReadFrame(s)
  \/ \E s \in Sessions : ChatLoopReadError(s)
  \/ \E s \in Sessions : ChatLoopDefer(s)
  \/ \E s \in Sessions : ChatLoopOnClose(s)
  \/ \E k \in Sessions, frame \in ChatFrames : PeerSend(k, frame)
  \/ \E k \in Sessions : PeerClose(k)
  \/ \E k \in Sessions : PeerCloseNormal(k)
  \/ Cancel

SpecChat == InitChat /\ [][NextChat]_vars

Next ==
  \/ \E t \in Callers : StartLock(t)
  \/ \E t \in Callers : StartDial(t)
  \/ \E t \in Callers : StartSpawn(t)
  \/ \E t \in Callers : SendLock(t)
  \/ \E t \in Callers : SendWrite(t)
  \/ \E t \in Callers : StopLock(t)
  \/ \E t \in Callers : StopWrite(t)
  \/ \E s \in Sessions : LoopTop(s)
  \/ \E s \in Sessions : LoopReadFrame(s)
  \/ \E s \in Sessions : LoopReadError(s)
  \/ \E s \in Sessions : LoopDefer(s)
  \/ \E k \in Sessions, frame \in Frames : PeerSend(k, frame)
  \/ \E k \in Sessions : PeerClose(k)
  \/ Cancel

Spec == Init /\ [][Next]_vars

\* Scheduling: a goroutine that can take its next step takes it (the Go
\* scheduler runs every runnable goroutine), and a goroutine waiting for the
\* mutex gets it if it is released again and again (sync.Mutex hands over
\* to starved waiters).  Nothing obliges the application to call a method,
\* the peer to send or close, or the context to be cancelled.
Fairness ==
  /\ \A t \in Callers :
       /\ WF_vars(StartDial(t)) /\ WF_vars(StartSpawn(t))
       /\ WF_vars(SendWrite(t)) /\ WF_vars(StopWrite(t))
  /\ \A s \in Sessions :
       /\ WF_vars(LoopTop(s)) /\ WF_vars(LoopReadFrame(s))
       /\ WF_vars(LoopReadError(s)) /\ SF_vars(LoopDefer(s))

SpecLive == Init /\ [][Next]_vars /\ Fairness

\* ===================================================================
\* The pure functions: JSON encoding of the response types, WAV framing
\* ===================================================================
\* ------------------------------------------------- values of the types
\* a Go string holding a byte sequence that is not valid UTF-8, and what
\* encoding/json writes in its place (U+FFFD)
BadUTF8 == "<ff>"
Replacement == "<fffd>"

\* A value of one of the response structs: f holds the fields that have a
\* json member name, raw the AudioResponse.RawMessage field (json:"-").
GoValue(struct, f, raw) == [struct |-> struct, f |-> f, raw |-> raw]

TypeTexts == KnownTags \cup {""}

ChatMetadataValues ==
  {GoValue("ChatMetadata", [type |-> t, chat_group_id |-> g, chat_id |-> c], "") :
     t \in TypeTexts, g \in {"", "group1", BadUTF8}, c \in {"", "chat1"}}
AssistantMessageValues ==
  {GoValue("AssistantMessage",
           [type |-> t, message |-> "", from_text |-> b]
             @@ ("message.role" :> r) @@ ("message.content" :> c), "") :
     t \in TypeTexts, b \in {"false", "true"}, r \in {"", "assistant"},
     c \in {"", "Hello", BadUTF8}}
AssistantEndValues ==
  {GoValue("AssistantEnd", [type |-> t], "") : t \in TypeTexts}
AudioResponseValues ==
  {GoValue("AudioResponse",
           [type |-> t, id |-> i, index |-> n, data |-> d, custom_session_id |-> c], raw) :
     t \in TypeTexts, i \in {"", "audio1", BadUTF8}, n \in {"0", "1"},
     d \in {"", "base64-audio-data"}, c \in {"", "s1"}, raw \in {"", "{}"}}
ResponseValues ==
  ChatMetadataValues \cup AssistantMessageValues \cup AssistantEndValues
    \cup AudioResponseValues

\* ------------------------------------------------------- json.Marshal
StructSchema(struct) ==
  CASE struct = "ChatMetadata" -> ChatMetadataSchema
    [] struct = "AssistantMessage" -> AssistantMessageSchema
    [] struct = "AssistantEnd" -> AssistantEndSchema
    [] OTHER -> AudioResponseSchema

\* the members tagged omitempty
OmitEmpty(struct) == IF struct = "AudioResponse" THEN {"custom_session_id"} ELSE {}

\* a string member as the encoder writes it
EncodeString(s) == IF s = BadUTF8 THEN Replacement ELSE s

\* json.Marshal of a response value: every tagged member in the JSON kind
\* of its Go type, an empty omitempty member left out, RawMessage never
\* written
Marshal(v) ==
  LET schema == StructSchema(v.struct)
      kept == {m \in DOMAIN schema :
                 ~(m \in OmitEmpty(v.struct) /\ v.f[m] = ZeroOf(schema[m]))}
  IN [syntax |-> "object",
      fields |-> [m \in kept |->
                    [k |-> schema[m],
                     v |-> IF schema[m] = "string" THEN EncodeString(v.f[m])
                           ELSE v.f[m]]]]

\* the Go value a decoded response is: RawMessage is never assigned
Decoded(r) == GoValue(r.struct, r.f, "")

\* ------------------------------------------------------ byte strings
\* lengths beyond what fits a machine word of the checker: hi * 2^16 + lo
Word == 65536
Size(hi, lo) == [hi |-> hi, lo |-> lo]
SizeAdd(n, k) == Size(n.hi + ((n.lo + k) \div Word), (n.lo + k) % Word)
SizeSub(n, k) ==
  IF n.lo >= k THEN Size(n.hi, n.lo - k) ELSE Size(n.hi - 1, n.lo + Word - k)

\* A byte string: the bytes of `pre`, then `rest` further bytes of value 0.
Bytes(pre, rest) == [pre |-> pre, rest |-> rest]
ByteLen(bs) == SizeAdd(bs.rest, Len(bs.pre))
\* bytes.Buffer.Write appends
BufWrite(pre, bs) == Bytes(pre \o bs.pre, bs.rest)

\* the conversions uint32(x) of an int and uint16(x)
uint32(n) == Size(n.hi % Word, n.lo)
uint16(x) == x % Word

\* binary.Write(.., binary.LittleEndian, ..) of a uint32 / uint16, and a
\* writer that puts the most significant byte first
BE32(u) == <<u.hi \div 256, u.hi % 256, u.lo \div 256, u.lo % 256>>
LE32(u) == <<u.lo % 256, u.lo \div 256, u.hi % 256, u.hi \div 256>>
BE16(x) == <<x \div 256, x % 256>>
LE16(x) == <<x % 256, x \div 256>>

\* buf.WriteString of the four chunk identifiers (ASCII)
RIFF == <<82, 73, 70, 70>>
WAVE == <<87, 65, 86, 69>>
FMT == <<102, 109, 116, 32>>
DATA == <<100, 97, 116, 97>>

ConvertPCMtoWAV(pcmData) ==
  LET dataSize == ByteLen(pcmData)
      totalSize == SizeAdd(dataSize, 44)
      header ==
        RIFF \o LE32(uint32(SizeSub(totalSize, 8))) \o WAVE
          \o FMT \o LE32(uint32(Size(0, 16))) \o LE16(uint16(1)) \o LE16(uint16(1))
          \o LE32(uint32(Size(0, 16000))) \o LE32(uint32(Size(0, 32000)))
          \o LE16(uint16(2)) \o LE16(uint16(16))
          \o DATA \o LE32(uint32(dataSize))
  IN BufWrite(header, pcmData)

\* ---------------------------------------------------------- the calls
MaxPCM == 2
SampleBytes == {0, 255}
Prefixes == UNION {[1..n -> SampleBytes] : n \in 0..MaxPCM}
\* how many zero bytes follow the prefix: none, or enough to come near or
\* past 2^16 and 2^32
Rests == {Size(0, 0), Size(0, Word - 1), Size(1, 0), Size(Word - 1, Word - 44),
          Size(Word - 1, Word - 38),
          Size(Word - 1, Word - 1), Size(Word, 0), Size(Word, 1)}
PCMInputs == {Bytes(p, r) : p \in Prefixes, r \in Rests}

\* ---------------------------------------------------- the REST calls
ListConfigsResponseSchema ==
  [total_pages |-> "number", page_number |-> "number", page_size |-> "number",
   configs_page |-> "array"]
ListChatsResponseSchema ==
  [page_number |-> "number", page_size |-> "number", total_pages |-> "number",
   pagination_direction |-> "string", chats_page |-> "array"]
ListSchema(api) ==
  IF api = "ListConfigs" THEN ListConfigsResponseSchema ELSE ListChatsResponseSchema

\* response bodies: a page, an object with none of the members, a member of
\* the wrong kind, a JSON array, bytes that are not JSON
JArr == [k |-> "array", v |-> ""]
BodyPage == [syntax |-> "object",
             fields |-> [total_pages |-> JNum("1"), page_number |-> JNum("0"),
                         page_size |-> JNum("10"), configs_page |-> JArr,
                         chats_page |-> JArr]]
BodyMessage == [syntax |-> "object", fields |-> [message |-> JStr("Not Found")]]
BodyBadKind == [syntax |-> "object", fields |-> [total_pages |-> JStr("1")]]
BodyArray == [syntax |-> "array", fields |-> [x \in {} |-> JArr]]
BodyGarbage == [syntax |-> "garbage", fields |-> [x \in {} |-> JArr]]
Bodies == {BodyPage, BodyMessage, BodyBadKind, BodyArray, BodyGarbage}
\* what io.ReadAll and the decoder get of a body whose transfer broke off
BodyCut == [syntax |-> "truncated", fields |-> [x \in {} |-> JArr]]

StatusOK == 200
Statuses == {StatusOK, 201, 204, 404, 500}

\* what c.httpClient.Do returns: an error, or a response with a status and
\* a body; `cut` tells that reading the body fails before its end
TransportError == [kind |-> "error", status |-> 0, body |-> BodyGarbage, cut |-> FALSE]
HTTPResponse(st, b, cut) == [kind |-> "response", status |-> st, body |-> b, cut |-> cut]
HTTPOutcomes ==
  {TransportError} \cup {HTTPResponse(st, b, c) : st \in Statuses, b \in Bodies, c \in BOOLEAN}

\* the bytes read from resp.Body
Received(resp) == IF resp.cut THEN BodyCut ELSE resp.body

NoResult == [struct |-> "nil"]
NoError == [kind |-> "nil"]
ListReturn(result, err) == [result |-> result, err |-> err]
\* an API error that leaves the body out
ApiErrorStatusOnly(status, body) ==
  [kind |-> "API error", status |-> status, body |-> BodyGarbage]
ApiError(status, body) == [kind |-> "API error", status |-> status, body |-> body]

\* ListConfigs / ListChats of a client whose baseURL does or does not make
\* a request URL, given what the transport answers
ListCall(api, urlOK, o) ==
  IF ~urlOK THEN ListReturn(NoResult, [kind |-> "creating request"])
  ELSE IF o.kind = "error" THEN ListReturn(NoResult, [kind |-> "making request"])
  ELSE IF o.status # StatusOK
    THEN ListReturn(NoResult, ApiError(o.status, Received(o)))
  ELSE IF UnmarshalErr(Received(o), ListSchema(api))
    THEN ListReturn(NoResult, [kind |-> "decoding response"])
  ELSE ListReturn([struct |-> api \o "Response",
                   f |-> UnmarshalVal(Received(o), ListSchema(api))], NoError)

\* fmt.Sprintf("%d", n): the decimal digits of n, a minus sign before them
\* when n is negative; a text is the sequence of its characters
Digit(d) == <<"0", "1", "2", "3", "4", "5", "6", "7", "8", "9">>[d + 1]
RECURSIVE Digits(_)
Digits(n) == IF n < 10 THEN <<Digit(n)>> ELSE Append(Digits(n \div 10), Digit(n % 10))
Itoa(n) == IF n < 0 THEN <<"-">> \o Digits(0 - n) ELSE Digits(n)
\* fmt.Sprintf("%t", b)
Btoa(b) == IF b THEN <<"t", "r", "u", "e">> ELSE <<"f", "a", "l", "s", "e">>

\* *ListConfigsParams / *ListChatsParams: nil or a struct
NilParams == [struct |-> "nil"]
PageNumbers == {-1, 0, 1, 12}
PageSizes == {-1, 0, 10}
ListConfigsParams == {[struct |-> "ListConfigsParams", PageNumber |-> n, PageSize |-> z] :
                        n \in PageNumbers, z \in PageSizes}
ListChatsParams == {[struct |-> "ListChatsParams", PageNumber |-> n, PageSize |-> z,
                     AscendingOrder |-> a] :
                      n \in PageNumbers, z \in PageSizes, a \in BOOLEAN}
ParamsOf(api) == {NilParams} \cup (IF api = "ListChats" THEN ListChatsParams
                                                      ELSE ListConfigsParams)

\* url.Values with one value per key; q.Set(key, value)
NoQuery == <<>>
Set(q, key, value) == [k \in DOMAIN q \cup {key} |-> IF k = key THEN value ELSE q[k]]

\* if params.PageNumber >= 0
PageNumberSentWhenPositive(n) == n > 0
PageNumberSent(n) == n >= 0

\* the query of the request: req.URL.Query() of an endpoint made from a
\* base URL without a query component, then the Set calls
ListQuery(api, params) ==
  IF params = NilParams THEN NoQuery
  ELSE LET q1 == IF PageNumberSent(params.PageNumber)
                 THEN Set(NoQuery, "page_number", Itoa(params.PageNumber)) ELSE NoQuery
           q2 == IF params.PageSize > 0
                 THEN Set(q1, "page_size", Itoa(params.PageSize)) ELSE q1
       IN IF api = "ListChats"
          THEN Set(q2, "ascending_order", Btoa(params.AscendingOrder)) ELSE q2

\* req.Header.Set
ListHeader(apiKey) ==
  Set(Set(<<>>, "X-Hume-Api-Key", apiKey), "Accept", "application/json")

\* the request handed to c.httpClient.Do; none when the URL does not parse
NoRequest == [method |-> "none"]
ListRequest(api, urlOK, apiKey, params) ==
  IF ~urlOK THEN NoRequest
  ELSE [method |-> "GET", query |-> ListQuery(api, params), header |-> ListHeader(apiKey)]

ListInputsOf(api) == {[api |-> api, urlOK |-> u, apiKey |-> key, params |-> p] :
                        u \in BOOLEAN, key \in {"", "test-api-key"}, p \in ParamsOf(api)}
ListInputs == ListInputsOf("ListConfigs") \cup ListInputsOf("ListChats")

\* ------------------------------------------------------ CreateMessage
\* the characters of the texts: a digit, a letter, the quote, the
\* backslash and the punctuation of a JSON array
Chars == {"1", "a", "\"", "\\", "[", "]", ","}
MaxText == 4
Texts == UNION {[1..n -> Chars] : n \in 0..MaxText}
NullText == <<"n", "u", "l", "l">>

\* json.Valid over these characters: one value, a number (digits), a
\* string (a backslash only before a quote or a backslash) or an array of
\* values, with nothing after it. ValueEnd and its helpers give the
\* position after what they scan from position i, 0 when it is malformed.
RECURSIVE NumberEnd(_, _)
NumberEnd(t, i) == IF i <= Len(t) /\ t[i] = "1" THEN NumberEnd(t, i + 1) ELSE i

RECURSIVE StringEnd(_, _)
StringEnd(t, i) ==
  IF i > Len(t) THEN 0
  ELSE IF t[i] = "\"" THEN i + 1
  ELSE IF t[i] = "\\"
    THEN IF i + 1 <= Len(t) /\ t[i + 1] \in {"\"", "\\"} THEN StringEnd(t, i + 2) ELSE 0
  ELSE StringEnd(t, i + 1)

RECURSIVE ValueEnd(_, _)
RECURSIVE ElementsEnd(_, _)
ValueEnd(t, i) ==
  IF i > Len(t) THEN 0
  ELSE IF t[i] = "1" THEN NumberEnd(t, i)
  ELSE IF t[i] = "\"" THEN StringEnd(t, i + 1)
  ELSE IF t[i] = "["
    THEN IF i + 1 <= Len(t) /\ t[i + 1] = "]" THEN i + 2 ELSE ElementsEnd(t, i + 1)
  ELSE 0
ElementsEnd(t, i) ==
  LET j == ValueEnd(t, i) IN
    IF j = 0 \/ j > Len(t) THEN 0
    ELSE IF t[j] = "," THEN ElementsEnd(t, j + 1)
    ELSE IF t[j] = "]" THEN j + 1
    ELSE 0

Valid(t) == ValueEnd(t, 1) = Len(t) + 1

\* strconv.Quote: the text between quotes, a quote or a backslash of the
\* text written after a backslash
RECURSIVE Escape(_)
Escape(t) ==
  IF t = <<>> THEN <<>>
  ELSE (IF Head(t) \in {"\"", "\\"} THEN <<"\\", Head(t)>> ELSE <<Head(t)>>) \o Escape(Tail(t))
\* quotes around the text as it is
QuoteUnescaped(t) == <<"\"">> \o t \o <<"\"">>
Quote(t) == <<"\"">> \o Escape(t) \o <<"\"">>

\* the payload argument (interface{}): nil, a string, a []byte, or a value
\* of another type: an int, a bool, a nil pointer to a struct, a channel
\* (v the text of a string or []byte, n the number of an int, b the bool)
Payload(kind, v, n, b) == [kind |-> kind, v |-> v, n |-> n, b |-> b]
NilPayload == Payload("nil", <<>>, 0, FALSE)
Payloads ==
  {NilPayload, Payload("*struct", <<>>, 0, FALSE), Payload("chan", <<>>, 0, FALSE)}
    \cup {Payload("string", t, 0, FALSE) : t \in Texts}
    \cup {Payload("[]byte", t, 0, FALSE) : t \in Texts}
    \cup {Payload("int", <<>>, n, FALSE) : n \in PageNumbers}
    \cup {Payload("bool", <<>>, 0, b) : b \in BOOLEAN}
MsgTypes == {"", "audio_input"}

\* json.Marshal of a payload of another type: a channel is an unsupported
\* type, a nil pointer is written as null
MarshalPayload(p) ==
  CASE p.kind = "chan" -> [data |-> <<>>, err |-> [kind |-> "unsupported type"]]
    [] p.kind = "int" -> [data |-> Itoa(p.n), err |-> NoError]
    [] p.kind = "bool" -> [data |-> Btoa(p.b), err |-> NoError]
    [] OTHER -> [data |-> NullText, err |-> NoError]

\* WebsocketMessage; a nil json.RawMessage is the empty text
WebsocketMessage(type, payload) == [Type |-> type, Payload |-> payload]
CreateMessage(msgType, payload) ==
  IF payload.kind = "nil"
    THEN [msg |-> WebsocketMessage(msgType, NullText), err |-> NoError]
  ELSE IF payload.kind = "string"
    THEN [msg |-> WebsocketMessage(msgType, Quote(payload.v)), err |-> NoError]
  ELSE IF payload.kind = "[]byte"
    THEN [msg |-> WebsocketMessage(msgType, IF Valid(payload.v) THEN payload.v
                                                                ELSE Quote(payload.v)),
          err |-> NoError]
  ELSE LET m == MarshalPayload(payload) IN
    IF m.err # NoError
    THEN [msg |-> WebsocketMessage("", <<>>),
          err |-> [kind |-> "failed to marshal payload"]]
    ELSE [msg |-> WebsocketMessage(msgType, m.data), err |-> NoError]

CreateMessageInputs == {[msgType |-> m, payload |-> p] : m \in MsgTypes, p \in Payloads}

\* --------------------------------------------------------- NewClient
DefaultBaseURL == "https://api.hume.ai/v0"
DefaultWsURL == "wss://api.hume.ai/v0"
\* a ClientOption that assigns one field
Option(field, value) == [field |-> field, value |-> value]
Options == {Option("baseURL", "http://localhost"), Option("baseURL", "http://127.0.0.1"),
            Option("apiKey", "other-key")}
MaxOpts == 2
OptionLists == UNION {[1..n -> Options] : n \in 0..MaxOpts}
ApiKeys == {"", "test-api-key"}

\* opt(c)
ApplyOption(c, opt) == [c EXCEPT ![opt.field] = opt.value]

RECURSIVE ApplyOptions(_, _)
ApplyOptions(c, opts) ==
  IF opts = <<>> THEN c ELSE ApplyOptions(ApplyOption(c, Head(opts)), Tail(opts))

RECURSIVE ApplyOptionsBackwards(_, _)
ApplyOptionsBackwards(c, opts) ==
  IF opts = <<>> THEN c
  ELSE ApplyOptionsBackwards(ApplyOption(c, opts[Len(opts)]), SubSeq(opts, 1, Len(opts) - 1))

\* a constructor that runs the options from the last to the first
NewClientBackwards(apiKey, opts) ==
  ApplyOptionsBackwards([apiKey |-> apiKey, baseURL |-> DefaultBaseURL,
                         wsURL |-> DefaultWsURL, wsConn |-> NilConn], opts)

NewClient(apiKey, opts) ==
  ApplyOptions([apiKey |-> apiKey, baseURL |-> DefaultBaseURL, wsURL |-> DefaultWsURL,
                wsConn |-> NilConn], opts)

NewClientInputs == {[apiKey |-> k, opts |-> o] : k \in ApiKeys, o \in OptionLists}

NewCall(fn, in) == [fn |-> fn, stage |-> "input", in |-> in, req |-> <<>>, wire |-> <<>>,
                    out |-> <<>>]

\* json.Marshal(tt.message)
MarshalValue ==
  /\ call.fn = "roundtrip" /\ call.stage = "input"
  /\ call' = [call EXCEPT !.stage = "encoded", !.wire = Marshal(call.in)]
  /\ UNCHANGED sessionVars

\* the frame goes through the switch of readResponses
DispatchFrame ==
  /\ call.fn = "roundtrip" /\ call.stage = "encoded"
  /\ call' = [call EXCEPT !.stage = "done", !.out = DispatchTagged(call.wire)]
  /\ UNCHANGED sessionVars

ConvertPCM ==
  /\ call.fn = "wav" /\ call.stage = "input"
  /\ call' = [call EXCEPT !.stage = "done", !.out = ConvertPCMtoWAV(call.in)]
  /\ UNCHANGED sessionVars

\* ListConfigs or ListChats runs against some answer of the server
List ==
  /\ call.fn = "list" /\ call.stage = "input"
  /\ \E o \in HTTPOutcomes :
       call' = [call EXCEPT !.stage = "done", !.wire = o,
                            !.req = ListRequest(call.in.api, call.in.urlOK,
                                                call.in.apiKey, call.in.params),
                            !.out = ListCall(call.in.api, call.in.urlOK, o)]
  /\ UNCHANGED sessionVars

Construct ==
  /\ call.fn = "newclient" /\ call.stage = "input"
  /\ call' = [call EXCEPT !.stage = "done",
                          !.out = NewClient(call.in.apiKey, call.in.opts)]
  /\ UNCHANGED sessionVars

Create ==
  /\ call.fn = "createmessage" /\ call.stage = "input"
  /\ call' = [call EXCEPT !.stage = "done",
                          !.out = CreateMessage(call.in.msgType, call.in.payload)]
  /\ UNCHANGED sessionVars

InitPure ==
  /\ variant = "tagged"
  /\ wsConn = NilConn
  /\ mu = "free"
  /\ nextConn = 1
  /\ connState = [k \in Sessions |-> "unopened"]
  /\ inbox = [k \in Sessions |-> <<>>]
  /\ sent = 0
  /\ cpc = [t \in Callers |-> "idle"]
  /\ cconn = [t \in Callers |-> NilConn]
  /\ lpc = [s \in Sessions |-> "none"]
  /\ lconn = [s \in Sessions |-> NilConn]
  /\ cancelled = FALSE
  /\ hist = [s \in Sessions |-> <<>>]
  /\ afterStop = FALSE
  /\ last = NoEvent
  /\ call \in {NewCall("roundtrip", v) : v \in ResponseValues}
                \cup {NewCall("wav", b) : b \in PCMInputs}
                \cup {NewCall("list", i) : i \in ListInputs}
                \cup {NewCall("newclient", i) : i \in NewClientInputs}
                \cup {NewCall("createmessage", i) : i \in CreateMessageInputs}

NextPure ==
  \/ MarshalValue
  \/ DispatchFrame
  \/ ConvertPCM
  \/ List
  \/ Construct
  \/ Create

SpecPure == InitPure /\ [][NextPure]_vars

TypeOK ==
  /\ variant \in Variants
  /\ wsConn \in {NilConn} \cup Sessions
  /\ mu \in {"free"} \cup Callers
  /\ nextConn \in 1..(MaxSessions + 1)
  /\ sent \in 0..MaxFrames

\* ===================================================================
\* Vocabulary of the properties
\* ===================================================================
\* connections on which Close has not been called
OpenConns == {k \in Sessions : connState[k] \in {"open", "peer_closed", "peer_normal"}}

\* number of callbacks of kind e the handler of session s has received
NumEv(s, e) == Cardinality({i \in DOMAIN hist[s] : hist[s][i].ev = e})

IsResponse(e) == e.ev = "response"
\* the OnResponse calls of session s, in order
Responses(s) == SelectSeq(hist[s], IsResponse)

\* the receive loop of session s has terminated
LoopEnded(s) == lpc[s] \in {"defer", "done", "panic"}

\* this step is the first step of a call of the method by caller t
StartCall(t) ==
  /\ cpc[t] = "idle"
  /\ cpc'[t] = "dial" \/ (last'.kind = "return" /\ last'.t = t /\ last'.op = "start")
SendCall(t) ==
  /\ cpc[t] = "idle"
  /\ cpc'[t] = "write" \/ (last'.kind = "return" /\ last'.t = t /\ last'.op = "send")
StopCall(t) ==
  /\ cpc[t] = "idle"
  /\ cpc'[t] = "stopwrite" \/ (last'.kind = "return" /\ last'.t = t /\ last'.op = "stop")

\* in this step the receive loop of session s takes the frame last'.frame
ReadsFrame(s) == lpc[s] = "read" /\ last'.kind = "read" /\ last'.s = s

\* classes of inbound frames, in the words of the specification
NotJSON(f) == f.syntax # "object"
HasStringTag(f) == f.syntax = "object" /\ "type" \in DOMAIN f.fields /\ f.fields["type"].k = "string"
TagOf(f) == IF HasStringTag(f) THEN f.fields["type"].v ELSE ""
HasKnownTag(f) == TagOf(f) \in KnownTags
SchemaOfTag(tag) ==
  CASE tag = "chat_metadata" -> ChatMetadataSchema
    [] tag = "assistant_message" -> AssistantMessageSchema
    [] tag = "assistant_end" -> AssistantEndSchema
    [] OTHER -> AudioResponseSchema
\* known tag, but a member of the wrong JSON kind for the tag's type
TypedDecodeFails(f) ==
  /\ HasKnownTag(f)
  /\ \E m \in DOMAIN f.fields \cap DOMAIN SchemaOfTag(TagOf(f)) :
       f.fields[m].k # SchemaOfTag(TagOf(f))[m]
\* known tag, but members of the tag's type are missing
LacksFields(f) ==
  /\ HasKnownTag(f)
  /\ ~(DOMAIN SchemaOfTag(TagOf(f)) \ {"custom_session_id"} \subseteq DOMAIN f.fields)
Malformed(f) == NotJSON(f) \/ TypedDecodeFails(f) \/ LacksFields(f)
WellFormedKnown(f) == HasKnownTag(f) /\ ~TypedDecodeFails(f) /\ ~LacksFields(f)

\* frames used to exercise the decoders beyond what the peer sends in a run
AllFrames == Frames \cup {FAudio, FEnd, FMsg, FMetaMissing, FEmptyTag, FNumTag}

\* ===================================================================
\* Properties
\* ===================================================================

\* C1: at most one connection is open at any instant and an open connection
\* is the one stored in wsConn; a StartVoiceChat called while a handle is
\* stored returns the "already active" error, dials nothing, invokes no
\* callback, starts no loop and leaves the stored handle and the connection
\* as they were.
C1_SingleActiveSession ==
  /\ [](Cardinality(OpenConns) <= 1 /\ OpenConns \subseteq {wsConn})
  /\ [][\A t \in Callers :
          StartCall(t) /\ wsConn # NilConn =>
            /\ last' = Ret(t, "start", "already_active", "none", NilConn)
            /\ cpc'[t] = "idle"
            /\ UNCHANGED <<wsConn, nextConn, connState, hist, lpc, mu>>]_vars

\* a second connection has been opened after the first was closed, and a
\* start call has just been rejected while the second is stored and open
C1_Witness ==
  /\ last.kind = "return" /\ last.op = "start" /\ last.res = "already_active"
  /\ wsConn = 2 /\ connState[1] = "closed" /\ connState[2] = "open"

\* C2: the handler of a started session receives OnDisconnect at most once,
\* and exactly once when the session's receive loop has terminated, whatever
\* ended the session.
C2_DisconnectExactlyOnce ==
  \A s \in Sessions :
    /\ NumEv(s, "disconnect") <= 1
    /\ LoopEnded(s) => NumEv(s, "disconnect") = 1

\* C3: every StopVoiceChat returns nil; a StopVoiceChat called right after
\* another one, with no other method call in between, returns nil at once,
\* writes no frame and changes nothing of the client or its connections; no
\* handler receives OnDisconnect twice.
C3_StopIdempotent ==
  /\ [](last.kind = "return" /\ last.op = "stop" => last.res = "nil")
  /\ [][\A t \in Callers :
          afterStop /\ StopCall(t) =>
            /\ last' = Ret(t, "stop", "nil", "none", NilConn)
            /\ UNCHANGED <<wsConn, mu, connState, inbox, hist, lpc>>]_vars
  /\ [](\A s \in Sessions : NumEv(s, "disconnect") <= 1)

\* C4: a frame that is not JSON, that fails the typed decode of its tag or
\* that lacks fields never ends the receive loop that reads it and causes no
\* OnDisconnect: the loop goes back to reading; and a well-formed frame with
\* a known tag read by a loop is delivered to its handler.
C4_MalformedFrameResilience ==
  [][\A s \in Sessions :
       /\ ReadsFrame(s) /\ Malformed(last'.frame) =>
            /\ lpc'[s] = "top"
            /\ hist'[s] = hist[s] \/ hist'[s][Len(hist'[s])].ev = "response"
       /\ ReadsFrame(s) /\ WellFormedKnown(last'.frame) =>
            /\ lpc'[s] = "top"
            /\ Len(hist'[s]) = Len(hist[s]) + 1
            /\ hist'[s][Len(hist'[s])].ev = "response"]_vars

\* C5: a frame whose decoding fails (not JSON, or a member of the wrong kind
\* for the type its tag selects) causes no callback at all: neither
\* OnResponse nor OnDisconnect.
C5_DecodeErrorNoCallback ==
  [][\A s \in Sessions :
       ReadsFrame(s) /\ (NotJSON(last'.frame) \/ TypedDecodeFails(last'.frame)) =>
         hist' = hist]_vars

\* C6: in the tagged-union client a frame whose tag is none of the four
\* known ones (an unknown, empty, missing or non-string tag included) causes
\* no callback, and the loop goes back to read the next frame; the decoder
\* drops every such frame.
C6_UnknownTagDropped ==
  /\ [](\A f \in AllFrames : ~HasKnownTag(f) => DispatchTagged(f) = Drop)
  /\ [][\A s \in Sessions :
          variant = "tagged" /\ ReadsFrame(s) /\ ~HasKnownTag(last'.frame) =>
            hist' = hist /\ lpc'[s] = "top"]_vars

\* the tagged-union loop of a session has just read a frame tagged
\* "something_new", is back at the top of its loop, and its handler has
\* received nothing but OnConnect
C6_Witness ==
  /\ variant = "tagged"
  /\ last.kind = "read" /\ last.frame = FUnknown
  /\ lpc[last.s] = "top" /\ hist[last.s] = <<EvConnect>>

\* C7: the OnResponse calls a session's handler receives are frames of that
\* session's own connection, in the order they arrived, and every
\* well-formed frame with a known tag that a loop reads is passed to
\* OnResponse exactly once, as the next callback.
C7_ResponsesInArrivalOrder ==
  /\ [](\A s \in Sessions :
          LET r == Responses(s) IN
            \A i \in DOMAIN r :
              /\ r[i].conn = s
              /\ \A j \in DOMAIN r : i < j => r[i].seq < r[j].seq)
  /\ [][\A s \in Sessions :
          ReadsFrame(s) /\ WellFormedKnown(last'.frame) =>
            hist' = [hist EXCEPT ![s] =
                       Append(@, [ev |-> "response", conn |-> lconn[s],
                                  seq |-> last'.seq, type |-> TagOf(last'.frame)])]]_vars

\* C8: a SendAudioData called while no handle is stored returns the
\* not-connected error at once, writes nothing and changes nothing; called
\* while a handle is stored it goes on to write to the stored connection,
\* and its one write's outcome is what it returns: nil when the write
\* succeeded, the write's error when it failed.
C8_SendAudioData ==
  [][\A t \in Callers :
       /\ SendCall(t) /\ wsConn = NilConn =>
            /\ last' = Ret(t, "send", "not_connected", "none", NilConn)
            /\ cpc'[t] = "idle"
            /\ UNCHANGED <<wsConn, mu, connState, inbox, hist, lpc>>
       /\ SendCall(t) /\ wsConn # NilConn =>
            /\ cpc'[t] = "write" /\ cconn'[t] = wsConn
            /\ UNCHANGED <<wsConn, connState, inbox, hist, lpc>>
       /\ cpc[t] = "write" /\ cpc'[t] # "write" =>
            /\ cpc'[t] = "idle"
            /\ last'.kind = "return" /\ last'.t = t /\ last'.op = "send"
            /\ last'.s = cconn[t]
            /\ \/ last'.io = "ok" /\ last'.res = "nil"
               \/ last'.io = "err" /\ last'.res = "write_error"
            /\ UNCHANGED <<wsConn, connState, inbox, hist, lpc>>]_vars

\* a SendAudioData on a session whose transport has failed has just
\* returned the error of its write while the handle is still stored
C8_Witness ==
  /\ last.kind = "return" /\ last.op = "send"
  /\ last.io = "err" /\ last.res = "write_error"
  /\ wsConn = last.s /\ connState[last.s] = "peer_closed"

\* C9: no two goroutines are inside a frame write on the same connection at
\* the same time.
C9_WritesSerialized == \A k \in Sessions : Cardinality(Writing(k)) <= 1

\* C10: the handler of a session receives OnConnect exactly once, as its
\* first callback and before the session's receive loop exists; the loop is
\* launched only after that; and a StartVoiceChat that returned nil has
\* stored the handle of a connection it opened, called OnConnect and
\* launched the loop.
C10_ConnectFirst ==
  /\ [](\A s \in Sessions :
          /\ hist[s] # <<>> => hist[s][1].ev = "connect" /\ NumEv(s, "connect") = 1
          /\ lpc[s] # "none" => hist[s] # <<>>
          /\ s >= nextConn => hist[s] = <<>> /\ lpc[s] = "none")
  /\ [](\A t \in Callers :
          cpc[t] = "spawn" => hist[cconn[t]] = <<EvConnect>> /\ lpc[cconn[t]] = "none")
  /\ [](last.kind = "return" /\ last.op = "start" /\ last.res = "nil" =>
          /\ last.s \in Sessions /\ last.s < nextConn
          /\ lpc[last.s] # "none" /\ hist[last.s][1] = EvConnect)
  /\ [][\A t \in Callers :
          cpc[t] = "dial" /\ cpc'[t] = "spawn" =>
            /\ wsConn = NilConn /\ wsConn' = nextConn /\ cconn'[t] = wsConn'
            /\ connState[wsConn'] = "unopened" /\ connState'[wsConn'] = "open"
            /\ hist'[wsConn'] = <<EvConnect>>]_vars

\* a session's handler has received OnConnect, then an OnResponse, then
\* OnDisconnect
C10_Witness ==
  \E s \in Sessions :
    /\ Len(hist[s]) = 3
    /\ hist[s][1].ev = "connect" /\ hist[s][2].ev = "response"
    /\ hist[s][3].ev = "disconnect"

\* C11: a StartVoiceChat whose URL construction or handshake fails returns
\* an error in that very step (no second attempt), opens and stores no
\* connection, so the client stays without a handle, invokes no callback
\* and starts no receive loop.
C11_FailedStart ==
  [][\A t \in Callers :
       /\ StartCall(t) /\ wsConn = NilConn /\ cpc'[t] # "dial" =>
            /\ last' = Ret(t, "start", "parse_error", "none", NilConn)
            /\ cpc'[t] = "idle"
            /\ UNCHANGED <<wsConn, nextConn, connState, inbox, hist, lpc>>
       /\ cpc[t] = "dial" /\ cpc'[t] # "dial" /\ nextConn' = nextConn =>
            /\ last' = Ret(t, "start", "dial_error", "err", NilConn)
            /\ cpc'[t] = "idle"
            /\ wsConn = NilConn
            /\ UNCHANGED <<wsConn, nextConn, connState, inbox, hist, lpc>>]_vars

\* the handshake of the first start call has just failed: the call returned
\* the error, no handle is stored, no connection was opened, no handler has
\* received a callback and no loop exists
C11_Witness ==
  /\ last.kind = "return" /\ last.op = "start" /\ last.res = "dial_error"
  /\ wsConn = NilConn /\ nextConn = 1
  /\ \A s \in Sessions : hist[s] = <<>> /\ lpc[s] = "none"

\* C12: a StopVoiceChat that found a stored handle leaves, when it returns,
\* that connection closed and no handle stored, whether or not its
\* close-frame write succeeded.
C12_StopAlwaysCloses ==
  [][\A t \in Callers :
       cpc[t] = "stopwrite" /\ cpc'[t] = "idle" =>
         wsConn' = NilConn /\ connState'[cconn[t]] = "closed"]_vars

\* C13: once the context is cancelled while a session's receive loop runs,
\* that loop eventually terminates having called OnDisconnect and released
\* the connection, also when no further frame arrives.
C13_CancellationEndsSession ==
  \A s \in Sessions :
    (cancelled /\ lpc[s] \in {"top", "read"})
      ~> (lpc[s] = "done" /\ NumEv(s, "disconnect") = 1 /\ connState[s] = "closed")

\* the last callback the handler of session s received is OnDisconnect with
\* the error of a failed read
ReadFailed(s) ==
  /\ hist[s] # <<>>
  /\ hist[s][Len(hist[s])] = EvDisconnect("read_error")

\* C14: a receive loop whose read fails calls OnDisconnect with that error;
\* when it has terminated no handle is stored (so a send fails as not
\* connected and a start is not rejected) and the session's connection is
\* closed; and a loop whose read failed because the peer closed the
\* session's connection does terminate (as long as the process lives).
C14_ReadFailureEndsSession ==
  /\ [][\A s \in Sessions :
          lpc[s] = "read" /\ lpc'[s] # "read" /\ last'.kind # "read" =>
            lpc'[s] = "defer" /\ hist'[s] = Append(hist[s], EvDisconnect("read_error"))]_vars
  /\ [][\A s \in Sessions :
          lpc[s] = "defer" /\ lpc'[s] = "done" =>
            wsConn' = NilConn /\ connState'[s] = "closed"]_vars
  /\ \A s \in Sessions :
       (lpc[s] = "defer" /\ ReadFailed(s) /\ connState[s] = "peer_closed")
         ~> (lpc[s] = "done" \/ crashed)

\* this step is the first step of a StartChat call by caller t
StartChatCall(t) ==
  /\ cpc[t] = "idle"
  /\ cpc'[t] = "store" \/ (last'.kind = "return" /\ last'.t = t /\ last'.op = "startchat")

\* C15: a StartChat called while a handle is stored fails at once without
\* opening a connection and leaves the stored handle alone; and every
\* connection that is open is the stored one or the one a StartChat in
\* progress is about to store.
C15_StartChatBarrier ==
  /\ [][\A t \in Callers :
          StartChatCall(t) /\ wsConn # NilConn =>
            /\ last'.kind = "return" /\ last'.res # "nil"
            /\ UNCHANGED <<wsConn, nextConn, connState>>]_vars
  /\ [][\A t \in Callers :
          cpc[t] = "store" /\ cpc'[t] # "store" => wsConn = NilConn]_vars
  /\ [](\A k \in OpenConns :
          k = wsConn \/ \E t \in Callers : cpc[t] = "store" /\ cconn[t] = k)

\* in this step the receive loop of session s evaluates c.wsConn
LoopReadsHandle(s) == lpc[s] = "top" /\ lpc'[s] \in {"read", "panic"}

\* C16: the handle is read or written only by the goroutine that holds the
\* mutex: it changes only in a step of the mutex's holder (or in a step
\* that finds the mutex free and takes it for that step), and a receive
\* loop evaluates it only when no other goroutine holds the mutex.
C16_HandleUnderLock ==
  /\ [][wsConn' # wsConn =>
          \/ mu = "free"
          \/ mu \in Callers /\ cpc'[mu] # cpc[mu]]_vars
  /\ [][\A s \in Sessions : LoopReadsHandle(s) => mu = "free"]_vars

\* C17: no goroutine is inside a blocking network call (the handshake of a
\* start, the frame write of a send, the close-frame write of a stop) while
\* it holds the mutex.
C17_NoIOUnderLock ==
  \A t \in Callers : cpc[t] \in {"dial", "write", "stopwrite"} => mu # t

\* C18: the receive loop of session s reads only from the connection of
\* session s, so no two loops read from one connection and no handler
\* receives a frame of another session's connection.
C18_LoopBoundToSession ==
  /\ \A s \in Sessions : lpc[s] = "read" => lconn[s] = s
  /\ \A s \in Sessions : \A i \in DOMAIN hist[s] :
       hist[s][i].ev = "response" => hist[s][i].conn = s

\* ------------------------------------------------ pure-function calls
RoundTripDone == call.fn = "roundtrip" /\ call.stage = "done"
WavDone == call.fn = "wav" /\ call.stage = "done"

TagOfStruct(struct) ==
  CASE struct = "ChatMetadata" -> "chat_metadata"
    [] struct = "AssistantMessage" -> "assistant_message"
    [] struct = "AssistantEnd" -> "assistant_end"
    [] OTHER -> "audio_output"

\* a value a valid frame of its variant carries: the Type field holds the
\* variant's own tag, every string is valid UTF-8, RawMessage is unset
ValidValue(v) ==
  /\ v.f["type"] = TagOfStruct(v.struct)
  /\ \A m \in DOMAIN v.f : v.f[m] # BadUTF8
  /\ v.raw = ""

\* the dispatcher delivered a value with the fields of the encoded one, and
\* its GetType() is the tag of the frame
Reconstructed ==
  /\ call.out.kind = "deliver"
  /\ Decoded(call.out.val) = call.in
  /\ call.out.val.f["type"] = TagOf(call.wire)

\* C19 (as it holds): a value of a known variant whose Type is the variant's
\* tag, whose strings are valid UTF-8 and whose RawMessage is unset comes
\* back from Marshal followed by the dispatcher with identical fields, and
\* the delivered value's GetType() is the top-level tag of the frame.
C19_RoundTripValid == RoundTripDone /\ ValidValue(call.in) => Reconstructed

\* C19 (as stated): every value of a known variant comes back from Marshal
\* followed by the dispatcher with identical fields and the frame's tag.
C19_RoundTripEveryValue == RoundTripDone => Reconstructed

\* an AudioResponse without custom_session_id went through: the member was
\* left out of the frame and the value came back
C19_Witness ==
  /\ RoundTripDone
  /\ call.in = GoValue("AudioResponse",
                       [type |-> "audio_output", id |-> "audio1", index |-> "1",
                        data |-> "base64-audio-data", custom_session_id |-> ""], "")
  /\ "custom_session_id" \notin DOMAIN call.wire.fields
  /\ Reconstructed

\* the 32-bit little-endian number at byte offset off of a byte string
U32At(bs, off) == Size(bs.pre[off + 3] + 256 * bs.pre[off + 4],
                       bs.pre[off + 1] + 256 * bs.pre[off + 2])
Slice(bs, from, to) == SubSeq(bs.pre, from + 1, to)

WavShape ==
  /\ ByteLen(call.out) = SizeAdd(ByteLen(call.in), 44)
  /\ Slice(call.out, 0, 4) = RIFF
  /\ Slice(call.out, 8, 12) = WAVE
  /\ Slice(call.out, 36, 40) = DATA
  /\ U32At(call.out, 40) = ByteLen(call.in)

\* C20 (as it holds): for every input of N < 2^32 bytes, N = 0 included,
\* ConvertPCMtoWAV returns 44+N bytes with "RIFF" at [0:4], "WAVE" at
\* [8:12], "data" at [36:40] and the little-endian u32 at offset 40 equal
\* to N.
C20_WavShapeBelow4GiB == WavDone /\ ByteLen(call.in).hi < Word => WavShape

\* C20 (as stated): the same for every input, whatever its length.
C20_WavShapeEveryInput == WavDone => WavShape

\* the empty input was converted: 44 bytes came back
C20_Witness ==
  /\ WavDone
  /\ call.in = Bytes(<<>>, Size(0, 0))
  /\ call.out.rest = Size(0, 0) /\ Len(call.out.pre) = 44

U16At(bs, off) == bs.pre[off + 1] + 256 * bs.pre[off + 2]

WavLayout ==
  /\ U32At(call.out, 4) = SizeSub(SizeAdd(ByteLen(call.in), 44), 8)
  /\ Slice(call.out, 12, 16) = FMT
  /\ U32At(call.out, 16) = Size(0, 16)
  /\ U16At(call.out, 20) = 1
  /\ U16At(call.out, 22) = 1
  /\ U32At(call.out, 24) = Size(0, 16000)
  /\ U32At(call.out, 28) = Size(0, 32000)
  /\ U16At(call.out, 32) = 2
  /\ U16At(call.out, 34) = 16
  /\ SubSeq(call.out.pre, 45, Len(call.out.pre)) = call.in.pre
  /\ call.out.rest = call.in.rest

\* C21 (as it holds): for an input of N bytes with N + 36 < 2^32 the header
\* has the canonical layout: the u32 at offset 4 is (44+N)-8, then "fmt ",
\* 16 (u32), 1 (u16), 1 (u16), 16000 (u32), 32000 (u32), 2 (u16), 16 (u16),
\* all little-endian, and bytes [44:44+N] are the input bytes in order.
C21_WavLayoutFits == WavDone /\ SizeAdd(ByteLen(call.in), 36).hi < Word => WavLayout

\* C21 (as stated): the same for every input, whatever its length.
C21_WavLayoutEveryInput == WavDone => WavLayout

\* a two-byte input was converted and follows the 44 header bytes
C21_Witness ==
  /\ WavDone
  /\ call.in = Bytes(<<0, 255>>, Size(0, 0))
  /\ call.out.pre[45] = 0 /\ call.out.pre[46] = 255
  /\ U32At(call.out, 4) = Size(0, 38)

ListDone == call.fn = "list" /\ call.stage = "done"

\* C22: ListConfigs and ListChats return no result and an error carrying
\* the status code and the body as received for every response whose status
\* is not 200; they return a result and no error only for a 200 response
\* whose body decodes; and the call leaves the connection handle alone.
C22_ListErrors ==
  /\ ListDone /\ call.in.urlOK /\ call.wire.kind = "response"
       /\ call.wire.status # StatusOK =>
         /\ call.out.result = NoResult
         /\ call.out.err.kind = "API error"
         /\ call.out.err.status = call.wire.status
         /\ call.out.err.body = Received(call.wire)
  /\ ListDone /\ (call.out.result # NoResult \/ call.out.err = NoError) =>
         /\ call.out.result # NoResult /\ call.out.err = NoError
         /\ call.in.urlOK /\ call.wire.kind = "response"
         /\ call.wire.status = StatusOK
         /\ ~UnmarshalErr(Received(call.wire), ListSchema(call.in.api))
         /\ call.out.result.f = UnmarshalVal(call.wire.body, ListSchema(call.in.api))
  /\ ListDone => wsConn = NilConn /\ mu = "free"

\* ListChats got a 404 with a body and returned it in the error
C22_Witness ==
  /\ ListDone /\ call.in.api = "ListChats"
  /\ call.wire = HTTPResponse(404, BodyMessage, FALSE)
  /\ call.out = ListReturn(NoResult, ApiError(404, BodyMessage))

NewClientDone == call.fn = "newclient" /\ call.stage = "done"

\* the value of the last option of the list that assigns the field
LastAssigned(opts, field, default) ==
  LET is == {i \in DOMAIN opts : opts[i].field = field}
  IN IF is = {} THEN default
     ELSE opts[CHOOSE i \in is : \A j \in is : j <= i].value

C24_ClosedIsTerminal ==
  \A s \in Sessions :
    NumEv(s, "disconnect") > 0 =>
      /\ NumEv(s, "disconnect") = 1
      /\ hist[s][Len(hist[s])].ev = "disconnect"
      /\ lpc[s] \in {"defer", "done"}

\* session 1 was connected, delivered a response, was disconnected and its
\* loop has returned
C24_Witness ==
  /\ lpc[1] = "done"
  /\ Len(hist[1]) = 3
  /\ hist[1][2].ev = "response" /\ hist[1][3].ev = "disconnect"

\* the loop of session s is blocked in ReadMessage: no frame, no close
Waiting(s) ==
  /\ lpc[s] = "read"
  /\ inbox[lconn[s]] = <<>>
  /\ connState[lconn[s]] = "open"

\* C25: while a receive loop is blocked waiting for a frame it does not
\* hold the mutex: the mutex is free, and then an idle caller's
\* SendAudioData and StopVoiceChat can take it, or it is held by a caller
\* inside a method whose next step can be taken; and a SendAudioData or
\* StopVoiceChat that is past the lock can take its last step and return.
C25_LoopReadsUnlocked ==
  \A s \in Sessions :
    Waiting(s) =>
      /\ mu = "free" \/ (mu \in Callers /\ cpc[mu] \in {"dial", "write", "stopwrite"})
      /\ \A t \in Callers :
           /\ mu = "free" /\ cpc[t] = "idle" =>
                ENABLED SendLock(t) /\ ENABLED StopLock(t)
           /\ cpc[t] = "dial" => ENABLED StartDial(t)
           /\ cpc[t] = "write" => ENABLED SendWrite(t)
           /\ cpc[t] = "stopwrite" => ENABLED StopWrite(t)

\* a send returned while the loop of the session was blocked reading
C25_Witness ==
  /\ Waiting(1)
  /\ last.kind = "return" /\ last.op = "send" /\ last.res = "nil"

\* C26: every exit path of StartVoiceChat, SendAudioData and StopVoiceChat
\* releases the mutex: a caller that is in none of the methods does not hold
\* it, so a later call does not wait for it forever.
C26_ExitsReleaseLock == \A t \in Callers : cpc[t] = "idle" => mu # t

\* C27: a receive loop never calls ReadMessage on a cleared handle: when the
\* handle was cleared between two reads the loop does not dereference nil.
C27_NoNilHandleUse == \A s \in Sessions : lpc[s] # "panic"

\* C28: the deferred cleanup of the loop of session s closes and clears only
\* the connection of session s: it leaves every other connection as it was
\* and clears the stored handle only when the handle is connection s.
C28_TeardownOwnConnection ==
  [][\A s \in Sessions :
       lpc[s] = "defer" /\ lpc'[s] = "done" =>
         /\ \A k \in Sessions \ {s} : connState'[k] = connState[k]
         /\ wsConn' # wsConn => wsConn = s]_vars

\* C29: when a handler callback is invoked the goroutine invoking it does not
\* hold the mutex, and the mutex is free or held by a caller that is inside
\* a method and will release it, so a SendAudioData or StopVoiceChat called
\* from inside the callback gets the mutex.
C29_CallbacksOutsideLock ==
  [][\A s \in Sessions :
       hist'[s] # hist[s] =>
         /\ \A t \in Callers : cpc'[t] # cpc[t] => mu' # t
         /\ mu' = "free" \/ (mu' \in Callers /\ cpc'[mu'] # "idle")]_vars

\* the OnResponse call of loop s for the frame read in this step, with Type ty
Delivers(s, ty) ==
  hist' = [hist EXCEPT ![s] = Append(@, [ev |-> "response", conn |-> lconn[s],
                                         seq |-> last'.seq, type |-> ty])]

LastEv(s, e) == hist[s] # <<>> /\ hist[s][Len(hist[s])].ev = e

\* C31: in the text chat OnClose is invoked at most once per session, exactly
\* once when the loop has ended, as the last callback, by the deferred
\* function after it has closed and cleared the handle; OnError is invoked
\* at most once and only OnClose follows it; a read that ends with the
\* peer's normal closure invokes no OnError; no OnMessage follows OnError
\* or OnClose.
C31_ChatCallbacks ==
  /\ [](\A s \in Sessions :
          /\ NumEv(s, "close") <= 1
          /\ lpc[s] \in {"done", "panic"} => NumEv(s, "close") = 1
          /\ NumEv(s, "close") = 1 => LastEv(s, "close") /\ lpc[s] \in {"done", "panic"}
          /\ NumEv(s, "error") <= 1
          /\ \A i \in DOMAIN hist[s] :
               hist[s][i].ev = "error" =>
                 \A j \in DOMAIN hist[s] : j > i => hist[s][j].ev = "close")
  /\ [][\A s \in Sessions :
          /\ NumEv(s, "close")' > NumEv(s, "close") =>
               lpc[s] \in {"onclose", "paniconclose"}
          /\ lpc'[s] \in {"onclose", "paniconclose"} /\ lpc'[s] # lpc[s] =>
               wsConn' = NilConn
          /\ lpc[s] = "read" /\ lpc'[s] = "defer" /\ inbox[lconn[s]] = <<>>
               /\ connState[lconn[s]] = "peer_normal" =>
               hist'[s] = hist[s]]_vars

\* the peer closed the chat normally: the handler of session 1 received
\* OnConnect and OnClose and nothing else, and the loop has returned
C31_Witness ==
  /\ lpc[1] = "done"
  /\ hist[1] = <<EvConnect, EvClose>>


\* C32: a nil handler passed to a start operation is replaced by the no-op
\* handler before any callback can fire: the handler a session's callbacks
\* are invoked on is never nil, it is the no-op handler exactly when the
\* start call was given nil and the caller's handler otherwise, and no
\* callback recorded for a session is a call on a nil handler
C32_NilHandlerReplaced ==
  \A s \in Sessions :
    /\ Handler(s) # NilHandler
    /\ Handler(s) = defaultHandler <=> HandlerArg(s) = NilHandler
    /\ HandlerArg(s) # NilHandler => Handler(s) = HandlerArg(s)
    /\ \A i \in DOMAIN hist[s] : hist[s][i] # NilCall

\* a session started with a nil handler has been through OnConnect, an
\* OnResponse and OnDisconnect
C32_Witness ==
  /\ HandlerArg(1) = NilHandler
  /\ Len(hist[1]) = 3
  /\ hist[1][1].ev = "connect" /\ hist[1][2].ev = "response"
  /\ hist[1][3].ev = "disconnect"


\* the number a decimal text stands for
RECURSIVE Atoi(_)
Atoi(txt) ==
  IF txt = <<>> THEN 0
  ELSE IF Head(txt) = "-" THEN 0 - Atoi(Tail(txt))
  ELSE LET d == CHOOSE x \in 0..9 : Digit(x) = txt[Len(txt)]
       IN 10 * Atoi(SubSeq(txt, 1, Len(txt) - 1)) + d

CreateMessageDone == call.fn = "createmessage" /\ call.stage = "done"

\* the text a quoted text stands for: the quotes removed and each
\* backslash with the character it precedes read as that character;
\* `malformed` when it is not a quoted text
RECURSIVE Unescape(_)
Unescape(t) ==
  IF t = <<>> THEN [ok |-> TRUE, v |-> <<>>]
  ELSE IF Head(t) = "\""  THEN [ok |-> FALSE, v |-> <<>>]
  ELSE IF Head(t) = "\\"
    THEN IF Len(t) < 2 THEN [ok |-> FALSE, v |-> <<>>]
         ELSE LET r == Unescape(SubSeq(t, 3, Len(t))) IN
                [ok |-> r.ok, v |-> <<t[2]>> \o r.v]
  ELSE LET r == Unescape(Tail(t)) IN [ok |-> r.ok, v |-> <<Head(t)>> \o r.v]
Unquote(t) ==
  IF Len(t) < 2 \/ t[1] # "\"" \/ t[Len(t)] # "\"" THEN [ok |-> FALSE, v |-> <<>>]
  ELSE Unescape(SubSeq(t, 2, Len(t) - 1))
IsQuoted(t, v) == Unquote(t) = [ok |-> TRUE, v |-> v]

\* C34: CreateMessage returns an error with the zero-value message exactly
\* when marshalling a payload that is neither nil, a string nor a []byte
\* fails; otherwise a message whose Type is msgType and whose Payload is
\* not empty: null for nil, the quoted string for a string, the bytes
\* themselves for a []byte that is valid JSON and the bytes as a quoted
\* string for one that is not, the JSON marshalling for another payload.
C34_CreateMessage ==
  CreateMessageDone =>
    LET p == call.in.payload
        r == call.out
        fails == p.kind \notin {"nil", "string", "[]byte"} /\ MarshalPayload(p).err # NoError
    IN /\ r.err # NoError <=> fails
       /\ r.err # NoError => r.msg = [Type |-> "", Payload |-> <<>>]
       /\ r.err = NoError =>
            /\ r.msg.Type = call.in.msgType
            /\ r.msg.Payload # <<>>
            /\ p.kind = "nil" => r.msg.Payload = <<"n", "u", "l", "l">>
            /\ p.kind = "string" => IsQuoted(r.msg.Payload, p.v)
            /\ p.kind = "[]byte" /\ Valid(p.v) => r.msg.Payload = p.v
            /\ p.kind = "[]byte" /\ ~Valid(p.v) => IsQuoted(r.msg.Payload, p.v)
            /\ p.kind = "int" => Atoi(r.msg.Payload) = p.n
            /\ p.kind = "bool" =>
                 r.msg.Payload = IF p.b THEN <<"t", "r", "u", "e">>
                                        ELSE <<"f", "a", "l", "s", "e">>
            /\ p.kind = "*struct" => r.msg.Payload = <<"n", "u", "l", "l">>

\* CreateMessage was given the bytes "\a", which are not valid JSON, and
\* returned them as the quoted string "\"\\a\""
C34_Witness ==
  /\ CreateMessageDone
  /\ call.in.payload = Payload("[]byte", <<"\"", "\\", "a", "\"">>, 0, FALSE)
  /\ call.out.err = NoError
  /\ call.out.msg.Payload = <<"\"", "\\", "\"", "\\", "\\", "a", "\\", "\"", "\"">>

====
